---------------------------- MODULE Spec2Model ----------------------------
(***************************************************************************)
(* A model of the dance-catalogue Telegram bot (src/bot.py).               *)
(*                                                                         *)
(* The bot is one asyncio process.  Every incoming update (a command or a  *)
(* callback selection) runs its handler as a coroutine; coroutines         *)
(* interleave at their awaits (pool creation, store queries, Telegram      *)
(* calls).  A task of the model is one running handler, and one action of  *)
(* the model is the code between two awaits.                               *)
(*                                                                         *)
(* Callback data is modelled as the list of its colon-separated segments:  *)
(* "program:7" is <<"program", "7">>, "back:programs" is                   *)
(* <<"back", "programs">>, "buy" is <<"buy">>, "program:" is               *)
(* <<"program", "">>.                                                      *)
(*                                                                         *)
(* The store's tables are only written by the bot's own insert into        *)
(* public.users, and the Telegram calls are taken to succeed.              *)
(***************************************************************************)
EXTENDS Integers, Sequences, FiniteSets, TLC

(* Bounds of the model. *)
MaxTasks == 2
MaxPrograms == 2
MaxFigures == 2

(* The free-quota limit of the specification; src/bot.py has no such number. *)
FreeQuota == 5

(* The longest detail text the specification lets through uncut; src/bot.py
   has no such number. *)
TruncateAt == 3900

(* The number of characters of every name, code and program name. *)
FieldChars == 1

(* The characters cb_figure's header has besides name, code and program name,
   and the characters of the text it puts in place of a missing description. *)
HeaderChars == 23
PlaceholderChars == 80

(* One Telegram identity: a handler reads and writes only the public.users rows
   and the chat of the sender of its update, so the chats of two identities
   evolve independently of each other; what the identity is (unknown to the
   bot, a user, an administrator, a subscriber) is chosen in Init. *)
TelegramIds == {1}
Tasks == 1..MaxTasks

VARIABLES
    programs,            \* public.programs: the set of program ids
    figures,             \* public.figures: figure id -> program_id
    descriptions,        \* public.figures: figure id -> length of description (0: NULL or '')
    users,               \* public.users: telegram_id -> [rows, is_admin, subscribed]
    unique_telegram_id,  \* whether the schema has a unique constraint on users.telegram_id
    db_pool,             \* the global _db_pool: 0 is None, n > 0 the n-th pool created
    pools_created,       \* how many times asyncpg.create_pool has been called
    pools_returned,      \* the pools get_db has returned so far
    tasks,               \* the running handlers, one per task slot
    screen,              \* per chat: the message the user is looking at
    opened,              \* per user: the figures whose detail screen was rendered
    startup,             \* the environment of the process and how far its start has got
    replay               \* two interactions handled in both orders, and what each produced

vars == <<programs, figures, descriptions, users, unique_telegram_id, db_pool,
          pools_created, pools_returned, tasks, screen, opened, startup, replay>>

store == <<programs, figures, descriptions, users, unique_telegram_id>>
pool_vars == <<db_pool, pools_created, pools_returned>>
history == <<opened>>

-----------------------------------------------------------------------------
(* Sequences and ids *)

Min(S) == CHOOSE x \in S : \A y \in S : x <= y

RECURSIVE OrderById(_)
OrderById(S) == IF S = {} THEN <<>> ELSE <<Min(S)>> \o OrderById(S \ {Min(S)})

Range(s) == {s[i] : i \in DOMAIN s}

(* The ids a callback payload of the model may name: every id of the store and
   every id up to the bound, so ids that resolve to nothing are among them. *)
ProgramInputs == programs \cup (1..MaxPrograms)
FigureInputs == (DOMAIN figures) \cup (1..MaxFigures)

(* f"{id}" and int(s) on the ids of the model. *)
FormatId(id) == ToString(id)
IsIntString(s) == \E i \in ProgramInputs \cup FigureInputs : ToString(i) = s
ParseInt(s) == CHOOSE i \in ProgramInputs \cup FigureInputs : ToString(i) = s

-----------------------------------------------------------------------------
(* Buttons, keyboards and screens *)

CallbackButton(data) == [data |-> data, url |-> FALSE]
UrlButton == [data |-> <<>>, url |-> TRUE]

(* A text: which one it is, the figure and program it names, and its number
   of characters, which the model follows for the detail text only. *)
Text(kind, figure, program) ==
    [kind |-> kind, figure |-> figure, program |-> program, chars |-> 0]
Plain(kind) == Text(kind, 0, 0)

Screen(text, kb) == [text |-> text, kb |-> kb]
NoScreen == Screen(Plain("none"), <<>>)

(* A back button that carries the token `back:root`, which no filter matches. *)
BackRootButton == CallbackButton(<<"back", "root">>)

BackProgramsButton == CallbackButton(<<"back", "programs">>)

build_main_menu_kb(program_rows, is_admin) ==
    [i \in 1..Len(program_rows) |->
        CallbackButton(<<"program", FormatId(program_rows[i])>>)]
    \o <<CallbackButton(<<"buy">>), CallbackButton(<<"about">>)>>
    \o (IF is_admin THEN <<CallbackButton(<<"admin">>)>> ELSE <<>>)

build_figures_kb(figure_rows, program_id) ==
    [i \in 1..Len(figure_rows) |->
        CallbackButton(<<"figure", FormatId(figure_rows[i])>>)]
    \o <<BackProgramsButton>>

-----------------------------------------------------------------------------
(* Store queries *)

fetch_programs == OrderById(programs)

fetch_figures(program_id) ==
    OrderById({f \in DOMAIN figures : figures[f] = program_id})

(* The figure joined with its program: <<program_id, description>>, or <<>>
   for no row. *)
fetch_figure(figure_id) ==
    IF figure_id \in DOMAIN figures /\ figures[figure_id] \in programs
    THEN <<figures[figure_id], descriptions[figure_id]>>
    ELSE <<>>

NoUser == [rows |-> 0, is_admin |-> FALSE, subscribed |-> FALSE]


-----------------------------------------------------------------------------
(* What each handler renders *)

cmd_start_render(program_rows, is_admin) ==
    IF program_rows = <<>>
    THEN Screen(Plain("empty_catalogue"), <<>>)
    ELSE Screen(Plain("choose_program"), build_main_menu_kb(program_rows, is_admin))

cmd_menu_render(program_rows, is_admin) ==
    Screen(Plain("main_menu"), build_main_menu_kb(program_rows, is_admin))

cb_back_programs_render(program_rows, is_admin) ==
    Screen(Plain("choose_program"), build_main_menu_kb(program_rows, is_admin))

cb_program_render(figure_rows, program_id) ==
    IF figure_rows = <<>>
    THEN Screen(Plain("no_figures"), <<>>)
    ELSE Screen(Plain("choose_figure"), build_figures_kb(figure_rows, program_id))

(* The length of the text cb_figure assembles: the header, then the description
   when there is one (`if description`), else the placeholder. *)
detail_text_chars(description) ==
    HeaderChars + 3 * FieldChars
        + (IF description # 0 THEN description ELSE PlaceholderChars)

(* A detail screen whose back button carries the figure's id in place of the
   id of its program. *)
cb_figure_render_back_to_figure(figure_id, row) ==
    Screen([Text("detail", figure_id, row[1]) EXCEPT !.chars = detail_text_chars(row[2])],
           <<CallbackButton(<<"program", FormatId(figure_id)>>),
             CallbackButton(<<"buy">>)>>)

(* row is fetch_figure's row, <<program_id, description>>. *)
cb_figure_render(figure_id, row) ==
    Screen([Text("detail", figure_id, row[1]) EXCEPT !.chars = detail_text_chars(row[2])],
           <<CallbackButton(<<"program", FormatId(row[1])>>),
             CallbackButton(<<"buy">>)>>)

cb_buy_render == Screen(Plain("buy"), <<UrlButton, BackProgramsButton>>)

cb_about_render == Screen(Plain("about"), <<BackProgramsButton>>)

cb_admin_render == Screen(Plain("admin"), <<BackProgramsButton>>)

(* A cb_admin whose guard never denies. *)
cb_admin_denied_never(is_admin) == FALSE

(* cb_admin's guard: `if not user_row.get("is_admin")`. *)
cb_admin_denied(is_admin) == ~is_admin

(* A cb_figure that also refuses a user who has opened a figure before, by a
   record of opened figures kept in the process. *)
cb_figure_not_found_or_metered(row) == row = <<>> \/ \E u \in TelegramIds : opened[u] # {}

(* cb_figure's guard: `if not row`. *)
cb_figure_not_found(row) == row = <<>>

-----------------------------------------------------------------------------
(* src/config.py: the environment and what importing the module does with it.
   A string is modelled as the sequence of its characters; a variable that is
   not set reads as None. *)

None == [set |-> FALSE, value |-> <<>>]
Str(chars) == [set |-> TRUE, value |-> chars]

(* `not x` on an optional string: None and '' are falsy. *)
Falsy(x) == ~x.set \/ x.value = <<>>

LowerLetters ==
    <<"a", "b", "c", "d", "e", "f", "g", "h", "i", "j", "k", "l", "m",
      "n", "o", "p", "q", "r", "s", "t", "u", "v", "w", "x", "y", "z">>
UpperLetters ==
    <<"A", "B", "C", "D", "E", "F", "G", "H", "I", "J", "K", "L", "M",
      "N", "O", "P", "Q", "R", "S", "T", "U", "V", "W", "X", "Y", "Z">>
Digits == {"0", "1", "2", "3", "4", "5", "6", "7", "8", "9"}

IsAlpha(c) == c \in Range(LowerLetters) \cup Range(UpperLetters)
SchemeChars == Range(LowerLetters) \cup Range(UpperLetters) \cup Digits \cup {"+", "-", "."}

(* str.lower() on one character. *)
Lower(c) ==
    IF c \in Range(UpperLetters)
    THEN LowerLetters[CHOOSE i \in DOMAIN UpperLetters : UpperLetters[i] = c]
    ELSE c

(* urlparse(url).scheme: the characters before the first colon, lowercased, when
   there is one, the first is a letter and all are scheme characters; else ''. *)
urlparse_scheme(url) ==
    LET colons == {i \in DOMAIN url : url[i] = ":"}
    IN  IF colons = {}
        THEN <<>>
        ELSE LET i == Min(colons)
             IN  IF i > 1 /\ IsAlpha(url[1]) /\ \A k \in 1..(i - 1) : url[k] \in SchemeChars
                 THEN [k \in 1..(i - 1) |-> Lower(url[k])]
                 ELSE <<>>

Postgres == <<"p", "o", "s", "t", "g", "r", "e", "s">>
Postgresql == <<"p", "o", "s", "t", "g", "r", "e", "s", "q", "l">>

(* _validate_database_url: whether it raises ValueError on raw_url. *)
validate_database_url_raises(raw_url) ==
    \/ Falsy(raw_url)
    \/ urlparse_scheme(raw_url.value) \notin {Postgres, Postgresql}

(* The pieces of s between the occurrences of sep: s.split(sep). *)
RECURSIVE Split(_, _)
Split(s, sep) ==
    LET at == {i \in DOMAIN s : s[i] = sep}
    IN  IF at = {}
        THEN <<s>>
        ELSE <<SubSeq(s, 1, Min(at) - 1)>> \o Split(SubSeq(s, Min(at) + 1, Len(s)), sep)

(* s.strip() of spaces. *)
RECURSIVE Strip(_)
Strip(s) ==
    IF s # <<>> /\ s[1] = " " THEN Strip(Tail(s))
    ELSE IF s # <<>> /\ s[Len(s)] = " " THEN Strip(SubSeq(s, 1, Len(s) - 1))
    ELSE s

(* Whether int(s) raises ValueError: s is not an optional sign and digits. *)
int_raises(s) ==
    LET digits == IF s # <<>> /\ s[1] \in {"+", "-"} THEN Tail(s) ELSE s
    IN  digits = <<>> \/ \E i \in DOMAIN digits : digits[i] \notin Digits

(* Lines 38-44: os.getenv("ADMIN_IDS", "") and the list of its integers. *)
admin_ids_raises(admin_ids) ==
    /\ ~Falsy(admin_ids)
    /\ LET parts == Split(admin_ids.value, ",")
       IN  \E i \in DOMAIN parts : int_raises(Strip(parts[i]))

(* A config whose closing check of BOT_TOKEN is switched off. *)
config_error_token_unchecked(env) ==
    IF validate_database_url_raises(env.DATABASE_URL) THEN "DATABASE_URL"
    ELSE IF admin_ids_raises(env.ADMIN_IDS) THEN "ADMIN_IDS"
    ELSE ""

(* The error importing config raises on env, "" when it raises none: the
   checks run in the order of the module's lines. *)
config_error(env) ==
    IF validate_database_url_raises(env.DATABASE_URL) THEN "DATABASE_URL"
    ELSE IF admin_ids_raises(env.ADMIN_IDS) THEN "ADMIN_IDS"
    ELSE IF Falsy(env.BOT_TOKEN) THEN "BOT_TOKEN"
    ELSE ""

(* The values the model gives the three variables of the environment. *)
BotTokens == {None, Str(<<>>), Str(<<"1", ":", "a">>)}
DatabaseUrls ==
    {None, Str(<<>>),
     Str(<<"p", "o", "s", "t", "g", "r", "e", "s", ":", "/", "/", "h">>),
     Str(<<"p", "o", "s", "t", "g", "r", "e", "s", "q", "l", ":", "/", "/", "h">>),
     Str(<<"P", "O", "S", "T", "G", "R", "E", "S", ":", "/", "/", "h">>),
     Str(<<"p", "o", "s", "t", "g", "r", "e", "s", ":">>),
     Str(<<"h", "t", "t", "p", "s", ":", "/", "/", "h">>),
     Str(<<"m", "y", "s", "q", "l", ":", "/", "/", "h">>),
     Str(<<"p", "o", "s", "t", "g", "r", "e", "s">>),
     Str(<<":", "/", "/", "h">>),
     Str(<<"/", "p", "o", "s", "t", "g", "r", "e", "s", ":", "/", "/", "h">>)}
AdminIds == {None, Str(<<>>), Str(<<"1">>), Str(<<"1", ",", " ", "2">>), Str(<<"x">>), Str(<<"1", ",">>)}

Environments ==
    [BOT_TOKEN : BotTokens, DATABASE_URL : DatabaseUrls, ADMIN_IDS : AdminIds]

(* A process that has started: bot.py imported config, built the bot and the
   dispatcher, and main() is polling. *)
Serving ==
    [env |-> [BOT_TOKEN |-> Str(<<"1", ":", "a">>), DATABASE_URL |-> Str(Postgresql \o <<":", "/", "/", "h">>),
              ADMIN_IDS |-> None],
     phase |-> "serving", error |-> ""]

-----------------------------------------------------------------------------
(* Dispatch: the filters of the registered callback handlers, in the order of
   their registration; aiogram runs the first handler whose filter matches. *)

CallbackHandlers ==
    <<"cb_back_programs", "cb_program", "cb_figure", "cb_buy", "cb_about", "cb_admin">>

Matches(handler, data) ==
    CASE handler = "cb_back_programs" -> data = <<"back", "programs">>
      [] handler = "cb_program" -> Len(data) >= 2 /\ data[1] = "program"
      [] handler = "cb_figure" -> Len(data) >= 2 /\ data[1] = "figure"
      [] handler = "cb_buy" -> data = <<"buy">>
      [] handler = "cb_about" -> data = <<"about">>
      [] handler = "cb_admin" -> data = <<"admin">>
      [] OTHER -> FALSE

Dispatch(data) ==
    IF \E i \in DOMAIN CallbackHandlers : Matches(CallbackHandlers[i], data)
    THEN CallbackHandlers[Min({i \in DOMAIN CallbackHandlers :
                                   Matches(CallbackHandlers[i], data)})]
    ELSE "none"

(* `_, s = callback.data.split(":", 1); int(s)`: the text after the first
   colon is an integer only when it is one segment and that segment is one. *)
ParsesId(data) == Len(data) = 2 /\ IsIntString(data[2])

(* The callback payloads of the model: the tokens the keyboards carry, for
   every id in range, and three malformed ones. *)
CallbackInputs ==
    {<<"back", "programs">>, <<"buy">>, <<"about">>, <<"admin">>}
    \cup {<<"program", FormatId(p)>> : p \in ProgramInputs}
    \cup {<<"figure", FormatId(f)>> : f \in FigureInputs}
    \cup {<<"program", "">>, <<"program", "abc">>, <<"figure", "1", "2", "3">>}

-----------------------------------------------------------------------------
(* Tasks *)

IdleTask ==
    [handler |-> "none", user |-> 0, data |-> <<>>, arg |-> 0, pc |-> "idle",
     pool |-> 0, creating |-> 0, is_admin |-> FALSE, rows |-> <<>>,
     result |-> "none", alert |-> FALSE, acks |-> 0]

(* The handler raised: aiogram logs the exception, nothing more is sent. *)
Raised(task) == [task EXCEPT !.pc = "done", !.result = "raised", !.pool = 0]

(* The pc at which each handler starts. *)
EntryPc(handler) ==
    CASE handler \in {"cmd_start", "cmd_menu", "cb_back_programs", "cb_admin"} -> "select"
      [] handler = "cb_program" -> "figures"
      [] handler = "cb_figure" -> "figure"
      [] handler \in {"cb_buy", "cb_about"} -> "edit"

(* Where a handler goes on when get_or_create_user has returned user_row. *)
AfterUserPc(handler, is_admin) ==
    IF handler = "cb_admin"
    THEN (IF cb_admin_denied(is_admin) THEN "alert" ELSE "edit")
    ELSE "programs"

(* The task that handles command handler h sent by user u. *)
EnterCommand(h, u) == [IdleTask EXCEPT !.handler = h, !.user = u, !.pc = EntryPc(h)]

(* The task that handles the callback selection data of user u: the handler the
   dispatcher picks, which for program and figure first takes the id out of the
   payload, `int(data.split(":", 1)[1])`, and raises when that is no integer. *)
EnterCallback(data, u) ==
    LET h == Dispatch(data)
        entered == [IdleTask EXCEPT !.handler = h, !.user = u, !.data = data]
    IN  IF h \in {"cb_program", "cb_figure"}
        THEN IF ParsesId(data)
             THEN [entered EXCEPT !.arg = ParseInt(data[2]), !.pc = EntryPc(h)]
             ELSE Raised(entered)
        ELSE [entered EXCEPT !.pc = EntryPc(h)]

(* Updates reach the handlers once main() polls. *)
Polling == startup.phase = "serving"

StartCommand(t) ==
    /\ Polling
    /\ tasks[t].pc = "idle"
    /\ \E u \in TelegramIds, h \in {"cmd_start", "cmd_menu"} :
          tasks' = [tasks EXCEPT ![t] = EnterCommand(h, u)]
    /\ UNCHANGED <<store, pool_vars, screen, history, startup, replay>>

StartCallbackOn(t, inputs) ==
    /\ Polling
    /\ tasks[t].pc = "idle"
    /\ \E u \in TelegramIds, data \in inputs :
          /\ Dispatch(data) # "none"
          /\ tasks' = [tasks EXCEPT ![t] = EnterCallback(data, u)]
    /\ UNCHANGED <<store, pool_vars, screen, history, startup, replay>>

StartCallback(t) == StartCallbackOn(t, CallbackInputs)

-----------------------------------------------------------------------------
(* get_db *)

(* The pcs at which a store function is entered, so get_db is called. *)
DbEntryPcs == {"select", "programs", "figures", "figure"}

(* `if _db_pool is None`: the caller starts creating a pool and is suspended. *)
get_db_needs_pool(pool) == pool = 0

GetDbCreate(t) ==
    /\ tasks[t].pc \in DbEntryPcs
    /\ tasks[t].pool = 0
    /\ tasks[t].creating = 0
    /\ get_db_needs_pool(db_pool)
    /\ pools_created' = pools_created + 1
    /\ tasks' = [tasks EXCEPT ![t].creating = pools_created + 1]
    /\ UNCHANGED <<store, db_pool, pools_returned, screen, history, startup, replay>>

(* create_pool has returned: `_db_pool = ...; return _db_pool`. *)
GetDbResume(t) ==
    /\ tasks[t].creating # 0
    /\ db_pool' = tasks[t].creating
    /\ pools_returned' = pools_returned \cup {tasks[t].creating}
    /\ tasks' = [tasks EXCEPT ![t].pool = tasks[t].creating, ![t].creating = 0]
    /\ UNCHANGED <<store, pools_created, screen, history, startup, replay>>

(* The task holds a pool, or get_db returns the existing one at once. *)
HasPool(t) ==
    \/ tasks[t].pool # 0
    \/ tasks[t].creating = 0 /\ ~get_db_needs_pool(db_pool)

PoolUsed(t) == IF tasks[t].pool # 0 THEN tasks[t].pool ELSE db_pool

-----------------------------------------------------------------------------
(* get_or_create_user *)

(* A get_or_create_user without `if row: return row`: it goes on to insert
   whatever the select returned. *)
SelectThenAlwaysInsert(t) ==
    LET task == tasks[t]
    IN  /\ task.pc = "select"
        /\ HasPool(t)
        /\ pools_returned' = pools_returned \cup {PoolUsed(t)}
        /\ tasks' = [tasks EXCEPT ![t] = [task EXCEPT !.pool = PoolUsed(t), !.pc = "insert"]]
        /\ UNCHANGED <<store, db_pool, pools_created, screen, history, startup, replay>>

(* `select * from public.users where telegram_id = $1`; `if row: return row`. *)
Select(t) ==
    LET task == tasks[t]
        row == users[task.user]
    IN  /\ task.pc = "select"
        /\ HasPool(t)
        /\ pools_returned' = pools_returned \cup {PoolUsed(t)}
        /\ tasks' = [tasks EXCEPT ![t] =
              IF row.rows > 0
              THEN [task EXCEPT !.is_admin = row.is_admin, !.pool = 0,
                                !.pc = AfterUserPc(task.handler, row.is_admin)]
              ELSE [task EXCEPT !.pool = PoolUsed(t), !.pc = "insert"]]
        /\ UNCHANGED <<store, db_pool, pools_created, screen, history, startup, replay>>

(* What `insert into public.users ... returning *` does to the rows of a
   telegram_id: with a unique constraint on telegram_id a second row is
   refused (asyncpg raises UniqueViolationError), without one it is added. *)
insert_refused(row, unique) == unique /\ row.rows > 0

insert_user(row) ==
    IF row.rows = 0
    THEN [rows |-> 1, is_admin |-> FALSE, subscribed |-> FALSE]
    ELSE [row EXCEPT !.rows = row.rows + 1]

Insert(t) ==
    LET task == tasks[t]
        row == users[task.user]
    IN  /\ task.pc = "insert"
        /\ IF insert_refused(row, unique_telegram_id)
           THEN /\ tasks' = [tasks EXCEPT ![t] = Raised(task)]
                /\ UNCHANGED users
           ELSE /\ users' = [users EXCEPT ![task.user] = insert_user(row)]
                /\ tasks' = [tasks EXCEPT ![t] =
                      [task EXCEPT !.is_admin = FALSE, !.pool = 0,
                                   !.pc = AfterUserPc(task.handler, FALSE)]]
        /\ UNCHANGED <<programs, figures, descriptions, unique_telegram_id, pool_vars,
                       screen, history, startup, replay>>

-----------------------------------------------------------------------------
(* The catalogue reads *)

FetchPrograms(t) ==
    LET task == tasks[t]
    IN  /\ task.pc = "programs"
        /\ HasPool(t)
        /\ pools_returned' = pools_returned \cup {PoolUsed(t)}
        /\ tasks' = [tasks EXCEPT ![t] =
              [task EXCEPT !.rows = fetch_programs, !.pool = 0,
                           !.pc = IF task.handler = "cb_back_programs"
                                  THEN "edit" ELSE "send"]]
        /\ UNCHANGED <<store, db_pool, pools_created, screen, history, startup, replay>>

FetchFigures(t) ==
    LET task == tasks[t]
    IN  /\ task.pc = "figures"
        /\ HasPool(t)
        /\ pools_returned' = pools_returned \cup {PoolUsed(t)}
        /\ tasks' = [tasks EXCEPT ![t] =
              [task EXCEPT !.rows = fetch_figures(task.arg), !.pool = 0, !.pc = "edit"]]
        /\ UNCHANGED <<store, db_pool, pools_created, screen, history, startup, replay>>

FetchFigure(t) ==
    LET task == tasks[t]
        row == fetch_figure(task.arg)
    IN  /\ task.pc = "figure"
        /\ HasPool(t)
        /\ pools_returned' = pools_returned \cup {PoolUsed(t)}
        /\ tasks' = [tasks EXCEPT ![t] =
              [task EXCEPT !.rows = row, !.pool = 0,
                           !.pc = IF cb_figure_not_found(row) THEN "alert" ELSE "edit"]]
        /\ UNCHANGED <<store, db_pool, pools_created, screen, history, startup, replay>>

-----------------------------------------------------------------------------
(* The Telegram calls *)

(* message.answer(...) of cmd_start and cmd_menu: a new message in the chat. *)
Send(t) ==
    LET task == tasks[t]
    IN  /\ task.pc = "send"
        /\ screen' = [screen EXCEPT ![task.user] =
              IF task.handler = "cmd_start"
              THEN cmd_start_render(task.rows, task.is_admin)
              ELSE cmd_menu_render(task.rows, task.is_admin)]
        /\ tasks' = [tasks EXCEPT ![t] = [task EXCEPT !.pc = "done", !.result = "sent"]]
        /\ UNCHANGED <<store, pool_vars, history, startup, replay>>

(* The screen a callback handler passes to callback.message.edit_text. *)
Rendered(task) ==
    CASE task.handler = "cb_back_programs" -> cb_back_programs_render(task.rows, task.is_admin)
      [] task.handler = "cb_program" -> cb_program_render(task.rows, task.arg)
      [] task.handler = "cb_figure" -> cb_figure_render(task.arg, task.rows)
      [] task.handler = "cb_buy" -> cb_buy_render
      [] task.handler = "cb_about" -> cb_about_render
      [] task.handler = "cb_admin" -> cb_admin_render

(* callback.message.edit_text(text, reply_markup=kb). *)
Edit(t) ==
    LET task == tasks[t]
        u == task.user
        detail == task.handler = "cb_figure"
    IN  /\ task.pc = "edit"
        /\ screen' = [screen EXCEPT ![u] = Rendered(task)]
        /\ tasks' = [tasks EXCEPT ![t] = [task EXCEPT !.pc = "answer", !.result = "edited"]]
        /\ opened' = IF detail
                     THEN [opened EXCEPT ![u] = @ \cup {task.arg}]
                     ELSE opened
        /\ UNCHANGED <<store, pool_vars, startup, replay>>

(* A handler that returns after the edit without callback.answer(). *)
AnswerForgotten(t) ==
    LET task == tasks[t]
    IN  /\ task.pc = "answer"
        /\ tasks' = [tasks EXCEPT ![t] = [task EXCEPT !.pc = "done"]]
        /\ UNCHANGED <<store, pool_vars, screen, history, startup, replay>>

(* callback.answer() after the edit. *)
Answer(t) ==
    LET task == tasks[t]
    IN  /\ task.pc = "answer"
        /\ tasks' = [tasks EXCEPT ![t] = [task EXCEPT !.pc = "done", !.acks = task.acks + 1]]
        /\ UNCHANGED <<store, pool_vars, screen, history, startup, replay>>

(* callback.answer(text, show_alert=True); return. *)
Alert(t) ==
    LET task == tasks[t]
    IN  /\ task.pc = "alert"
        /\ tasks' = [tasks EXCEPT ![t] =
              [task EXCEPT !.pc = "done", !.result = "alert", !.alert = TRUE,
                           !.acks = task.acks + 1]]
        /\ UNCHANGED <<store, pool_vars, screen, history, startup, replay>>

(* The handler has returned (or raised); the slot takes the next update. *)
Finish(t) ==
    /\ tasks[t].pc = "done"
    /\ tasks' = [tasks EXCEPT ![t] = IdleTask]
    /\ UNCHANGED <<store, pool_vars, screen, history, startup, replay>>

-----------------------------------------------------------------------------
(* Initial states and specifications *)

(* The catalogues with programs among 1..maxP and figures among 1..maxF, every
   figure the child of a program of the catalogue. *)
Catalogues(maxP, maxF) ==
    {[programs |-> P, figures |-> F] :
        <<P, F>> \in {pf \in (SUBSET (1..maxP)) \X
                              UNION {[S -> 1..maxP] : S \in SUBSET (1..maxF)} :
                          Range(pf[2]) \subseteq pf[1]}}

(* The rows public.users may hold for one telegram_id when the process starts:
   none, or one row whose flags were set in Supabase. *)
UserRows ==
    {NoUser,
     [rows |-> 1, is_admin |-> FALSE, subscribed |-> FALSE],
     [rows |-> 1, is_admin |-> TRUE, subscribed |-> FALSE],
     [rows |-> 1, is_admin |-> FALSE, subscribed |-> TRUE]}

(* No pair of interactions is being replayed. *)
NoReplay == [step |-> 0, pair |-> <<>>, users0 |-> <<>>, outcomes |-> <<>>, finals |-> <<>>]

(* The process right after import: no pool, no handler running. *)
InitProcess ==
    /\ db_pool = 0
    /\ pools_created = 0
    /\ pools_returned = {}
    /\ tasks = [t \in Tasks |-> IdleTask]
    /\ screen = [u \in TelegramIds |-> NoScreen]
    /\ opened = [u \in TelegramIds |-> {}]
    /\ startup = Serving
    /\ replay = NoReplay

(* No figure with a description: cb_figure renders its placeholder. *)
NoDescriptions == descriptions = [f \in DOMAIN figures |-> 0]

Init ==
    /\ \E c \in Catalogues(MaxPrograms, MaxFigures) :
          programs = c.programs /\ figures = c.figures
    /\ NoDescriptions
    /\ users \in [TelegramIds -> UserRows]
    /\ unique_telegram_id \in BOOLEAN
    /\ InitProcess

(* Every handler, one update at a time: the next update is taken when the
   handler of the one before has returned. *)
Next ==
    \/ StartCommand(1)
    \/ StartCallback(1)
    \/ GetDbCreate(1)
    \/ GetDbResume(1)
    \/ Select(1)
    \/ Insert(1)
    \/ FetchPrograms(1)
    \/ FetchFigures(1)
    \/ FetchFigure(1)
    \/ Send(1)
    \/ Edit(1)
    \/ Answer(1)
    \/ Alert(1)
    \/ Finish(1)

Spec == Init /\ [][Next]_vars

(* The entry commands, handled concurrently: the handlers interleave at their
   awaits, as aiogram's polling runs every update's handler as its own task. *)
NextCommands ==
    \E t \in Tasks :
        \/ StartCommand(t)
        \/ GetDbCreate(t)
        \/ GetDbResume(t)
        \/ Select(t)
        \/ Insert(t)
        \/ FetchPrograms(t)
        \/ Send(t)
        \/ Finish(t)

SpecCommands == Init /\ [][NextCommands]_vars

(* A catalogue of one program with one figure more than the free quota, and
   users the bot has not met: cb_figure never reads public.users. *)
InitFigures ==
    /\ programs = {1}
    /\ figures = [f \in 1..(FreeQuota + 1) |-> 1]
    /\ NoDescriptions
    /\ users = [u \in TelegramIds |-> NoUser]
    /\ unique_telegram_id \in BOOLEAN
    /\ InitProcess

StartFigure(t) ==
    StartCallbackOn(t, {<<"figure", FormatId(f)>> : f \in FigureInputs})

(* Figure selections only, handled concurrently. *)
NextFigures ==
    \E t \in Tasks :
        \/ StartFigure(t)
        \/ GetDbCreate(t)
        \/ GetDbResume(t)
        \/ FetchFigure(t)
        \/ Edit(t)
        \/ Answer(t)
        \/ Finish(t)

SpecFigures == InitFigures /\ [][NextFigures]_vars

-----------------------------------------------------------------------------
(* Two interactions of one user, handled one after the other in one order and
   then, from the same initial state, in the other order.  replay.step says
   where the replay is: 1 and 2 handle the first and then the second
   interaction, 3 puts the initial state back, 4 and 5 handle the second and
   then the first, 6 is the end. *)

Command(h) == [command |-> h, data |-> <<>>]
Callback(data) == [command |-> "", data |-> data]

Interactions ==
    {Command(h) : h \in {"cmd_start", "cmd_menu"}} \cup {Callback(d) : d \in CallbackInputs}

Enter(interaction, u) ==
    IF interaction.command # ""
    THEN EnterCommand(interaction.command, u)
    ELSE EnterCallback(interaction.data, u)

(* The interaction handled at a step of the replay. *)
ReplayTurn(step) ==
    CASE step \in {1, 5} -> replay.pair[1]
      [] step \in {2, 4} -> replay.pair[2]

(* What the user got from a handler that has finished: how it ended, whether
   it alerted, its acknowledgements and the screen it rendered, if any. *)
Outcome(task) ==
    [result |-> task.result, alert |-> task.alert, acks |-> task.acks,
     shown |-> IF task.result \in {"sent", "edited"} THEN screen[task.user] ELSE NoScreen]

InitReplay ==
    /\ \E c \in Catalogues(MaxPrograms, MaxFigures) :
          programs = c.programs /\ figures = c.figures
    /\ NoDescriptions
    /\ users \in [TelegramIds -> UserRows]
    /\ unique_telegram_id \in BOOLEAN
    /\ db_pool = 0
    /\ pools_created = 0
    /\ pools_returned = {}
    /\ tasks = [t \in Tasks |-> IdleTask]
    /\ screen = [u \in TelegramIds |-> NoScreen]
    /\ opened = [u \in TelegramIds |-> {}]
    /\ startup = Serving
    /\ \E both \in {{a, b} : a, b \in Interactions} :
          LET first == CHOOSE a \in both : TRUE
              second == IF both = {first} THEN first ELSE CHOOSE b \in both : b # first
          IN  replay = [step |-> 1, pair |-> <<first, second>>, users0 |-> users,
                        outcomes |-> <<>>, finals |-> <<>>]

ReplayStart ==
    /\ Polling
    /\ tasks[1].pc = "idle"
    /\ replay.step \in {1, 2, 4, 5}
    /\ \E u \in TelegramIds :
          tasks' = [tasks EXCEPT ![1] = Enter(ReplayTurn(replay.step), u)]
    /\ UNCHANGED <<store, pool_vars, screen, history, startup, replay>>

ReplayFinish ==
    /\ tasks[1].pc = "done"
    /\ replay.step \in {1, 2, 4, 5}
    /\ tasks' = [tasks EXCEPT ![1] = IdleTask]
    /\ replay' = [replay EXCEPT
          !.step = @ + 1,
          !.outcomes = Append(@, Outcome(tasks[1])),
          !.finals = IF replay.step \in {2, 5} THEN Append(@, users) ELSE @]
    /\ UNCHANGED <<store, pool_vars, screen, history, startup>>

ReplayRestore ==
    /\ replay.step = 3
    /\ users' = replay.users0
    /\ db_pool' = 0
    /\ pools_created' = 0
    /\ pools_returned' = {}
    /\ screen' = [u \in TelegramIds |-> NoScreen]
    /\ opened' = [u \in TelegramIds |-> {}]
    /\ replay' = [replay EXCEPT !.step = 4]
    /\ UNCHANGED <<programs, figures, descriptions, unique_telegram_id, tasks, startup>>

NextReplay ==
    \/ ReplayStart
    \/ GetDbCreate(1)
    \/ GetDbResume(1)
    \/ Select(1)
    \/ Insert(1)
    \/ FetchPrograms(1)
    \/ FetchFigures(1)
    \/ FetchFigure(1)
    \/ Send(1)
    \/ Edit(1)
    \/ Answer(1)
    \/ Alert(1)
    \/ ReplayFinish
    \/ ReplayRestore

SpecReplay == InitReplay /\ [][NextReplay]_vars

-----------------------------------------------------------------------------
(* Figure selections on figures with descriptions of several lengths, around
   the longest detail text the specification lets through uncut. *)

DescriptionChars ==
    LET fits == TruncateAt - (HeaderChars + 3 * FieldChars)
    IN  {0, 1, fits, fits + 1, 2 * TruncateAt}

InitDetail ==
    /\ \E c \in Catalogues(1, MaxFigures) :
          programs = c.programs /\ figures = c.figures
    /\ descriptions \in [DOMAIN figures -> DescriptionChars]
    /\ users \in [TelegramIds -> {NoUser}]
    /\ unique_telegram_id \in BOOLEAN
    /\ InitProcess

NextDetail ==
    \/ StartFigure(1)
    \/ GetDbCreate(1)
    \/ GetDbResume(1)
    \/ FetchFigure(1)
    \/ Edit(1)
    \/ Answer(1)
    \/ Alert(1)
    \/ Finish(1)

SpecDetail == InitDetail /\ [][NextDetail]_vars

-----------------------------------------------------------------------------
(* The start of the process: `from config import BOT_TOKEN, DATABASE_URL` runs
   src/config.py, the module then builds the bot and the dispatcher, and
   main() polls.  An error raised on the way ends the process. *)

InitStartup ==
    /\ programs = {}
    /\ figures = <<>>
    /\ NoDescriptions
    /\ users = [u \in TelegramIds |-> NoUser]
    /\ unique_telegram_id = TRUE
    /\ db_pool = 0
    /\ pools_created = 0
    /\ pools_returned = {}
    /\ tasks = [t \in Tasks |-> IdleTask]
    /\ screen = [u \in TelegramIds |-> NoScreen]
    /\ opened = [u \in TelegramIds |-> {}]
    /\ \E env \in Environments : startup = [env |-> env, phase |-> "import", error |-> ""]
    /\ replay = NoReplay

ImportConfig ==
    /\ startup.phase = "import"
    /\ startup' = [startup EXCEPT
          !.error = config_error(startup.env),
          !.phase = IF config_error(startup.env) = "" THEN "configured" ELSE "failed"]
    /\ UNCHANGED <<store, pool_vars, tasks, screen, history, replay>>

CreateBot ==
    /\ startup.phase = "configured"
    /\ startup' = [startup EXCEPT !.phase = "bot"]
    /\ UNCHANGED <<store, pool_vars, tasks, screen, history, replay>>

StartPolling ==
    /\ startup.phase = "bot"
    /\ startup' = [startup EXCEPT !.phase = "serving"]
    /\ UNCHANGED <<store, pool_vars, tasks, screen, history, replay>>

NextStartup ==
    \/ ImportConfig
    \/ CreateBot
    \/ StartPolling

SpecStartup == InitStartup /\ [][NextStartup]_vars

-----------------------------------------------------------------------------
(* Entitlement, as far as the code has any *)

(* The AccessGrant records (user, figure) the bot has written: src/bot.py
   reads and writes no such record. *)
access_grants == {}

GrantsOf(u) == {g \in access_grants : g[1] = u}

Subscribed(u) == users[u].subscribed

(* Task t's handler passes this step from pc `from` to pc `to`. *)
Steps(t, handler, from, to) ==
    /\ tasks[t].handler = handler
    /\ tasks[t].pc = from
    /\ tasks'[t].pc = to

-----------------------------------------------------------------------------
(* C1: a user who is not subscribed and has opened exactly FreeQuota distinct
   figures is denied a further distinct figure: the step that answers the
   selection shows the upsell notice, not the figure's content; re-opening a
   figure already opened shows its content and adds no grant. *)
C1_QuotaGate ==
    [][\A t \in Tasks :
          LET u == tasks[t].user
              f == tasks[t].arg
          IN  Steps(t, "cb_figure", "edit", "answer") /\ ~Subscribed(u)
                  /\ Cardinality(opened[u]) = FreeQuota
              => IF f \in opened[u]
                 THEN /\ screen'[u].text.kind = "detail"
                      /\ GrantsOf(u)' = GrantsOf(u)
                 ELSE screen'[u].text.kind = "upsell"]_vars

(* C2: when a user who is not subscribed and is within the free quota opens
   a figure for the second time, the two opens together have added exactly
   one AccessGrant: the user holds one grant per distinct figure opened. *)
C2_IdempotentGrant ==
    [][\A t \in Tasks :
          LET u == tasks[t].user
          IN  Steps(t, "cb_figure", "edit", "answer") /\ ~Subscribed(u)
                  /\ tasks[t].arg \in opened[u]
                  /\ Cardinality(opened[u]) <= FreeQuota
              => Cardinality(GrantsOf(u)') = Cardinality(opened'[u])]_vars

(* C3: of two opens of two different figures by a user who is not subscribed
   and has opened FreeQuota - 1 other figures, at most one shows the figure's
   content, however the two handlers interleave; and no user who is not
   subscribed ever holds more than FreeQuota grants. *)
C3_RaceSafeQuota ==
    /\ \A t1, t2 \in Tasks :
          LET u == tasks[t1].user
              shown(t) == /\ tasks[t].handler = "cb_figure"
                          /\ tasks[t].pc \in {"answer", "done"}
                          /\ tasks[t].result = "edited"
          IN  ~ /\ t1 # t2
                /\ tasks[t2].user = u
                /\ shown(t1) /\ shown(t2)
                /\ tasks[t1].arg # tasks[t2].arg
                /\ ~Subscribed(u)
                /\ Cardinality(opened[u] \ {tasks[t1].arg, tasks[t2].arg}) = FreeQuota - 1
    /\ \A u \in TelegramIds : ~Subscribed(u) => Cardinality(GrantsOf(u)) <= FreeQuota

(* C4: concurrent first contacts of one telegram_id leave exactly one row for
   it in public.users, and no get_or_create_user call fails. *)
C4_FirstContactSafe ==
    /\ \A u \in TelegramIds : users[u].rows <= 1
    /\ \A t \in Tasks : tasks[t].result # "raised"

(* C5: the pool is created at most once, and every get_db call returns that
   one pool. *)
C5_SingleFlightPool ==
    /\ pools_created <= 1
    /\ Cardinality(pools_returned) <= 1

(* C6: the step in which cb_back_programs edits the message leaves on it
   exactly the screen /start sends to the same user on the same store. *)
C6_BackRendersRoot ==
    [][\A t \in Tasks :
          LET u == tasks[t].user
          IN  Steps(t, "cb_back_programs", "edit", "answer")
              => screen'[u] = cmd_start_render(fetch_programs, users[u].is_admin)]_vars

(* C7: while the store holds no programs no chat shows a program menu: what
   /start, /menu and back-to-root render is the empty-catalogue notice,
   without buttons. *)
C7_EmptyCatalogueNotice ==
    programs = {} =>
        \A u \in TelegramIds :
            screen[u].text.kind \in {"choose_program", "main_menu", "empty_catalogue"}
            => screen[u] = Screen(Plain("empty_catalogue"), <<>>)

(* C8: a handler that has finished a `program:<id>` or `figure:<id>`
   selection whose id resolves to nothing has answered with an alert and has
   neither raised nor edited the message. *)
C8_NotFoundAlert ==
    \A t \in Tasks :
        LET task == tasks[t]
            unresolved ==
                \/ task.handler = "cb_program" /\ task.arg \notin programs
                \/ task.handler = "cb_figure" /\ fetch_figure(task.arg) = <<>>
        IN  task.pc = "done" /\ ParsesId(task.data) /\ unresolved
            => task.result = "alert" /\ task.alert

(* The token that leads from a screen to its parent screen. *)
ParentToken(text) ==
    IF text.kind = "detail"
    THEN <<"program", FormatId(text.program)>>
    ELSE <<"back", "programs">>

NonRootKinds == {"choose_figure", "no_figures", "detail", "buy", "about", "admin"}

(* C9: every non-root screen a chat shows carries a button whose token leads
   to the screen's parent. *)
C9_BackButtonEverywhere ==
    \A u \in TelegramIds :
        screen[u].text.kind \in NonRootKinds
        => \E i \in DOMAIN screen[u].kb :
              /\ ~screen[u].kb[i].url
              /\ screen[u].kb[i].data = ParentToken(screen[u].text)

(* C10: the AdminPanel is shown only to administrators: no chat of a user
   whose row is absent or has is_admin false shows it, and a finished `admin`
   selection of such a user has answered with an alert and edited nothing. *)
C10_AdminGated ==
    /\ \A u \in TelegramIds :
          screen[u].text.kind = "admin" => users[u].rows > 0 /\ users[u].is_admin
    /\ \A t \in Tasks :
          LET task == tasks[t]
          IN  task.pc = "done" /\ task.handler = "cb_admin"
                  /\ ~users[task.user].is_admin
              => task.result = "alert" /\ task.alert /\ task.acks = 1

(* A user who is not an administrator has selected `admin` and got the alert. *)
C10_Witness ==
    \E t \in Tasks :
        /\ tasks[t].pc = "done" /\ tasks[t].handler = "cb_admin"
        /\ ~users[tasks[t].user].is_admin
        /\ tasks[t].alert
        /\ screen[tasks[t].user].text.kind \in {"choose_program", "main_menu"}

(* C11: two interactions of one user handled in either order from the same
   initial state give each interaction the same outcome (the same rendered
   screen, or the same alert or failure) and leave the same rows in
   public.users. *)
C11_OrderIndependent ==
    replay.step = 6 =>
        /\ replay.outcomes[1] = replay.outcomes[4]
        /\ replay.outcomes[2] = replay.outcomes[3]
        /\ replay.finals[1] = replay.finals[2]

(* Both orders of `admin` and /start have been handled for a user the bot had
   not met: one of the two inserted the user's row, /start rendered a screen. *)
C11_Witness ==
    /\ replay.step = 6
    /\ {replay.pair[1], replay.pair[2]} = {Callback(<<"admin">>), Command("cmd_start")}
    /\ replay.users0[1].rows = 0
    /\ replay.finals[2][1].rows = 1
    /\ \E i \in 1..4 : replay.outcomes[i].result = "sent"
    /\ \E i \in 1..4 : replay.outcomes[i].alert

(* The connection string x is set and reads `<scheme>:` and more, in any case
   of letters. *)
HasScheme(x, scheme) ==
    /\ x.set
    /\ Len(x.value) > Len(scheme)
    /\ \A i \in DOMAIN scheme : Lower(x.value[i]) = scheme[i]
    /\ x.value[Len(scheme) + 1] = ":"

(* The environment holds a bot credential and a postgres connection string. *)
Configured(env) ==
    /\ env.BOT_TOKEN.set /\ env.BOT_TOKEN.value # <<>>
    /\ HasScheme(env.DATABASE_URL, Postgres) \/ HasScheme(env.DATABASE_URL, Postgresql)

(* C12: the process builds the bot and polls only when BOT_TOKEN is present
   and DATABASE_URL is present with scheme postgres or postgresql; with any
   other environment importing config has raised, and the process has failed
   before the bot is built. *)
C12_StartupFailsFast ==
    /\ startup.phase \in {"configured", "bot", "serving"} => Configured(startup.env)
    /\ startup.phase # "import" /\ ~Configured(startup.env)
          => startup.phase = "failed" /\ startup.error # ""

(* The process has failed on a DATABASE_URL that is an https URL, with
   BOT_TOKEN present. *)
C12_Witness ==
    /\ startup.phase = "failed"
    /\ startup.error = "DATABASE_URL"
    /\ ~Falsy(startup.env.BOT_TOKEN)
    /\ HasScheme(startup.env.DATABASE_URL, <<"h", "t", "t", "p", "s">>)

(* C13: the detail text a chat shows is the assembled text when that has at
   most TruncateAt characters, and otherwise its first TruncateAt characters
   (followed by a truncation suffix). *)
C13_DetailTruncated ==
    \A u \in TelegramIds :
        screen[u].text.kind = "detail"
        => LET full == detail_text_chars(descriptions[screen[u].text.figure])
           IN  screen[u].text.chars = IF full > TruncateAt THEN TruncateAt ELSE full

(* C14: a handler that has finished a `program:` or `figure:` selection whose
   remainder is not one integer has ended with the malformed-token outcome:
   it has not raised and has not edited the message. *)
C14_MalformedRejected ==
    \A t \in Tasks :
        LET task == tasks[t]
        IN  task.pc = "done" /\ task.handler \in {"cb_program", "cb_figure"}
                /\ ~ParsesId(task.data)
            => task.result = "malformed"

(* C15: when a handler has handled an update of a user without raising, be it
   a command or any callback selection, public.users holds a row for the
   user. *)
C15_UserOnFirstContact ==
    \A t \in Tasks :
        LET task == tasks[t]
        IN  task.pc = "done" /\ task.result # "raised"
            => users[task.user].rows >= 1

(* C16: no step of a handler changes public.programs or public.figures, and
   the only change a step makes to public.users is the insertion of one row
   for a telegram_id that had none.  (The step of the replay that puts the
   initial state back is no step of a handler.) *)
C16_StoreFrame ==
    [][\/ replay.step = 3
       \/ /\ programs' = programs
          /\ figures' = figures
          /\ descriptions' = descriptions
          /\ \A u \in TelegramIds :
                \/ users'[u] = users[u]
                \/ users[u].rows = 0 /\ users'[u] = [NoUser EXCEPT !.rows = 1]]_vars

(* The first interactions of a user the bot had not met have left one row for
   the user in public.users. *)
C16_Witness ==
    /\ replay.step \in {1, 2, 3}
    /\ replay.users0[1].rows = 0
    /\ users[1].rows = 1

(* The callback tokens on the buttons of a screen. *)
Tokens(scr) == {scr.kb[i].data : i \in {j \in DOMAIN scr.kb : ~scr.kb[j].url}}

(* C17: every callback token on a button of a screen a chat shows matches the
   filter of exactly one registered handler, and when that handler takes an
   id out of the token, the id parses. *)
C17_NavigationClosed ==
    \A u \in TelegramIds :
        \A data \in Tokens(screen[u]) :
            /\ Cardinality({i \in DOMAIN CallbackHandlers :
                                Matches(CallbackHandlers[i], data)}) = 1
            /\ Dispatch(data) \in {"cb_program", "cb_figure"} => ParsesId(data)

(* A chat shows a figure's detail screen, with its `program:<id>` and `buy`
   buttons. *)
C17_Witness ==
    \E u \in TelegramIds :
        /\ screen[u].text.kind = "detail"
        /\ {<<"program", FormatId(p)>> : p \in programs} \cap Tokens(screen[u]) # {}
        /\ <<"buy">> \in Tokens(screen[u])

(* C18: a callback handler that has returned without raising has answered the
   callback exactly once, whichever way it returned, and no handler ever
   answers twice. *)
C18_AnsweredOnce ==
    \A t \in Tasks :
        LET task == tasks[t]
        IN  /\ task.acks <= 1
            /\ task.pc = "done" /\ task.handler \in Range(CallbackHandlers)
                    /\ task.result # "raised"
                => task.acks = 1

(* cb_program has returned from the empty figure list: it has edited the
   message to the notice and answered once. *)
C18_Witness ==
    \E t \in Tasks :
        /\ tasks[t].pc = "done" /\ tasks[t].handler = "cb_program"
        /\ tasks[t].result = "edited" /\ tasks[t].acks = 1
        /\ screen[tasks[t].user].text.kind = "no_figures"

(* C19: the first button of a figure's detail screen carries `program:<P>`
   for the program P that owns the figure, and the step in which cb_program,
   handling that token, edits the message leaves a figure list with a button
   `figure:<F>` for the figure. *)
C19_BackRoundTrip ==
    [][\A u \in TelegramIds :
          LET f == screen[u].text.figure
              back == screen[u].kb[1].data
          IN  screen[u].text.kind = "detail"
              => /\ f \in DOMAIN figures
                 /\ back = <<"program", FormatId(figures[f])>>
                 /\ \A t \in Tasks :
                       Steps(t, "cb_program", "edit", "answer")
                           /\ tasks[t].user = u /\ tasks[t].data = back
                       => /\ screen'[u].text.kind = "choose_figure"
                          /\ <<"figure", FormatId(f)>> \in Tokens(screen'[u])]_vars

(* cb_program has handled the back token of the detail screen of a figure of
   program 2: the chat shows the figure list of program 2, the figure in it. *)
C19_Witness ==
    \E t \in Tasks, u \in TelegramIds :
        /\ tasks[t].handler = "cb_program" /\ tasks[t].user = u
        /\ tasks[t].pc = "answer" /\ tasks[t].arg = 2
        /\ screen[u].text.kind = "choose_figure"
        /\ \E f \in opened[u] :
              /\ figures[f] = 2
              /\ <<"figure", FormatId(f)>> \in Tokens(screen[u])

=============================================================================
